---- MODULE Spec2Model ----
(***************************************************************************)
(* Model of the streaming chat endpoint (api/routers/chat.py), the agent   *)
(* construction (agents/base_agent.py) and the governance middleware       *)
(* configured in core/middle/__init__.py.                                  *)
(***************************************************************************)
EXTENDS Integers, Sequences, FiniteSets, TLC

(***************************************************************************)
(* Bounds of the model.                                                    *)
(***************************************************************************)
MaxSteps == 3
MaxLangStep == 2
MaxRuns == 2
MaxMessages == 25
MaxApplications == 2
BigTokens == 3000

(***************************************************************************)
(* The step source: agent.astream(..., stream_mode="messages") yields      *)
(* (token, metadata) pairs.  A step keeps token.content,                   *)
(* metadata["langgraph_node"] and metadata["langgraph_step"].              *)
(***************************************************************************)
ToolStage == "tools"
Nodes == {"model", ToolStage}
Contents == {"", "Hi", " there"}
None == 0
Steps == [content : Contents, node : Nodes, lstep : 1..MaxLangStep]

VARIABLES
    gen,             \* position of chat.generate: idle, awaiting, yielded, done, failed, cancelled
    langgraph_step,  \* the generator-local tracking variable (None before the first step)
    consumed,        \* the steps pulled from agent.astream so far, in order
    pending,         \* the chunk handed to the transport by yield and not yet written
    out,             \* the client-visible event sequence written by the transport
    logged,          \* indices of the steps for which the transition line was logged
    source,          \* the step source agent.astream of the request: none, open, closed
    response,        \* the HTTP response started for the last request
    lastReq,         \* the body of the last request received
    agent,           \* whether an agent was constructed for the last request
    atCancel,        \* steps pulled and events written when the client disconnected
    run,             \* number of requests served so far
    runUser,         \* user_id of the request being served
    status,          \* terminal status of the run: none, pending, completed, limit-exceeded, error
    kind,            \* what the current chain invocation wraps: a model or a tool call
    chainPos,        \* 0: no invocation in progress; i: interceptor i is next; Len+1: the agent call is next
    ran,             \* the interceptors that ran in the current invocation, in order
    shortBy,         \* the interceptor that short-circuited the current invocation, or ""
    called,          \* whether the agent call of the current invocation was executed
    runCount,        \* run-scoped call counters, per kind
    threadCount,     \* thread-scoped call counters, per kind
    saved,           \* thread-scoped counters retained between runs, per thread id
    recorded,        \* model calls recorded so far by all runs of each conversation
    faultBy,         \* the interceptor whose own fault ended the current invocation, or ""
    summaryResult,   \* what Summarization did in the current invocation
    retryable,       \* whether a retryable error was returned to the caller of the invocation
    history,         \* the message history the summarization interceptor works on
    applied,         \* what each application of the summarization interceptor did
    conc,            \* the concurrent runs of one conversation: position, value read, counter, calls
    observed,        \* the thread count each model call of those runs found before counting itself
    pair,            \* the generators of two requests in flight at once, each with its own locals
    feeds            \* the step sources opened by agent.astream: their steps and how many were pulled

muxVars == <<gen, langgraph_step, consumed, pending, out, logged,
             source, response, lastReq, agent, atCancel>>

chainVars == <<kind, chainPos, ran, shortBy, called, runCount, threadCount, saved, recorded,
               faultBy, summaryResult, retryable>>

runVars == <<run, runUser, status>>

compactVars == <<history, applied>>

concVars == <<conc, observed>>

pairVars == <<pair, feeds>>

vars == <<muxVars, runVars, chainVars, compactVars, concVars, pairVars>>

Chunk(text, src) == [kind |-> "Chunk", text |-> text, src |-> src]
EndEvent == [kind |-> "End", text |-> "", src |-> 0]

\* chat.py:34  the condition guarding the yield (after two variants of it,
\* each without one of its conjuncts)
PassesNoNodeCheck(step) == step.content # ""
PassesNoContentCheck(step) == step.node # ToolStage
Passes(step) == step.node # ToolStage /\ step.content # ""

\* chat.py:31  the transition test (IsTransitionAfterFirst: a variant that
\* does not count the first step)
IsTransitionAfterFirst(step, tracked) == tracked # None /\ step.lstep # tracked
IsTransition(step, tracked) == step.lstep # tracked

\* chat.py:36 and 38-46: the transport writes the yielded chunks in the order
\* the body iterator produced them (WriteFront: a variant that puts the
\* newest first)
WriteFront(events, chunks) == chunks \o events
Write(events, chunks) == events \o chunks

(***************************************************************************)
(* core/middle/__init__.py: the interceptor list and its configuration.    *)
(***************************************************************************)
\* (QuotasFirst: a variant of the list with the quota interceptors first)
QuotasFirst == <<"ModelCallLimit", "ToolCallLimit", "Summarization">>
DEFAULT_MIDDLEWARE == <<"Summarization", "ModelCallLimit", "ToolCallLimit">>

ModelThreadLimit == 10
ModelRunLimit == 10
ToolThreadLimit == 10
ToolRunLimit == 10

ExitPolicies == {"end", "error"}

\* core/middle/__init__.py:32  exit_behavior="end" (the comment there names
\* "error", which raises, as the other value)
ModelExitBehaviorError == "error"
ModelExitBehavior == "end"

\* ToolCallLimitMiddleware is given no exit_behavior: the graceful default
ToolExitBehavior == "end"

Users == {"u1", "u2"}
NoThread == "none"
Kinds == {"model", "tool"}
Zero == [model |-> 0, tool |-> 0]

\* chat.py:27-30 and base_agent.py:22-25: astream is given no thread id and the
\* agent no checkpointer, so a run belongs to no retained thread
\* (ThreadOfRunByUser: a variant that keys the thread by user_id)
ThreadOfRunByUser(user) == user
ThreadOfRun(user) == NoThread

\* thread-scoped counters at the start of a run: those retained for its thread
LoadThread(store, tid) == IF tid = NoThread THEN Zero ELSE store[tid]

\* thread-scoped counters are retained only for a run that has a thread id
Persist(store, tid, counts) ==
    IF tid = NoThread THEN store ELSE [store EXCEPT ![tid] = counts]

\* Quota Tracker: record_call and exceeds
RecordCall(counts, k) == [counts EXCEPT ![k] = @ + 1]

Exceeds(tcount, rcount, tlimit, rlimit) == tcount > tlimit \/ rcount > rlimit

ThreadLimitOf(name) == IF name = "ModelCallLimit" THEN ModelThreadLimit ELSE ToolThreadLimit
RunLimitOf(name) == IF name = "ModelCallLimit" THEN ModelRunLimit ELSE ToolRunLimit
ExitPolicyOf(name) == IF name = "ModelCallLimit" THEN ModelExitBehavior ELSE ToolExitBehavior
KindOf(name) == IF name = "ModelCallLimit" THEN "model" ELSE "tool"

\* the outcome of a quota short-circuit under an exit policy
QuotaExit(policy) ==
    IF policy = "end" THEN [status |-> "limit-exceeded", raises |-> FALSE]
    ELSE [status |-> "error", raises |-> TRUE]

\* the chain driver: the position after an interceptor returned its decision
\* (ChainNextIgnoringDecision: a variant that goes on after a short-circuit)
ChainNextIgnoringDecision(pos, proceed) == pos + 1
ChainNext(pos, proceed) == IF proceed THEN pos + 1 ELSE 0

\* no application of Summarization yet in the invocation
NoSummary == [before |-> <<>>, after |-> <<>>, subcall |-> FALSE, failed |-> FALSE]

ChainInit ==
    /\ faultBy = ""
    /\ summaryResult = NoSummary
    /\ retryable = FALSE
    /\ run = 0
    /\ runUser = "none"
    /\ status = "none"
    /\ kind = "none"
    /\ chainPos = 0
    /\ ran = <<>>
    /\ shortBy = ""
    /\ called = FALSE
    /\ runCount = Zero
    /\ threadCount = Zero
    /\ saved = [t \in Users |-> Zero]
    /\ recorded = [u \in Users |-> 0]

\* chat.py:16-19  ChatRequest: message and user_id are required strings,
\* message of length at least 1.  Missing stands for a field that is absent.
Missing == "<missing>"
Requests == [message : {Missing, "", "hi"}, user_id : {Missing} \cup Users]

\* (ValidAlways: a variant that validates nothing)
ValidAlways(req) == TRUE
Valid(req) ==
    /\ req.message # Missing
    /\ req.message # ""
    /\ req.user_id # Missing

NoRequest == [message |-> Missing, user_id |-> Missing]
NoCancel == [consumed |-> 0, written |-> 0]

\* the responses of the endpoint: none yet, the validation error, the started
\* stream (chat.py:38-46) and the error object of global_exception_handler
\* (http_server.py:96-112)
NoResponse == [status |-> 0, body |-> "none"]
ValidationError == [status |-> 422, body |-> "json"]
StreamingResponse == [status |-> 200, body |-> "stream"]
global_exception_handler ==
    [status |-> 500, body |-> "json", error |-> "Internal Server Error"]

\* the error object can be sent only if no response has been started
SendError(resp) == IF resp.status = 0 THEN global_exception_handler ELSE resp

MuxInit ==
    /\ gen = "idle"
    /\ langgraph_step = None
    /\ consumed = <<>>
    /\ pending = <<>>
    /\ out = <<>>
    /\ logged = <<>>
    /\ source = "none"
    /\ response = NoResponse
    /\ lastReq = NoRequest
    /\ agent = FALSE
    /\ atCancel = NoCancel

\* the previous request is over and another one may be received
Receivable == gen \in {"idle", "done", "failed", "cancelled"}

\* what every request starts from
NewRequest(req) ==
    /\ lastReq' = req
    /\ langgraph_step' = None
    /\ consumed' = <<>>
    /\ pending' = <<>>
    /\ out' = <<>>
    /\ logged' = <<>>
    /\ atCancel' = NoCancel

\* what every accepted request starts from
NewRun(req) ==
    /\ run' = run + 1
    /\ runUser' = req.user_id
    /\ kind' = "model"
    /\ ran' = <<>>
    /\ shortBy' = ""
    /\ called' = FALSE
    /\ runCount' = Zero
    /\ threadCount' = LoadThread(saved, ThreadOfRun(req.user_id))
    /\ faultBy' = ""
    /\ summaryResult' = NoSummary
    /\ retryable' = FALSE
    /\ UNCHANGED <<saved, recorded, compactVars, concVars, pairVars>>

\* chat.py:16-19  the body does not validate: the framework answers 422 and
\* the handler is not entered
Reject(req) ==
    /\ Receivable
    /\ ~Valid(req)
    /\ NewRequest(req)
    /\ gen' = "idle"
    /\ source' = "none"
    /\ agent' = FALSE
    /\ response' = ValidationError
    /\ UNCHANGED <<runVars, chainVars, compactVars, concVars, pairVars>>

\* chat.py:22-46  the handler returns a StreamingResponse over generate();
\* the response is started, then the generator creates the agent and opens
\* agent.astream.
\* Requests are served one after the other here; each gets a new generator, a
\* new agent (base_agent.py:22-25) and a new run whose first chain invocation
\* wraps a model call.
Chat(req) ==
    /\ Receivable
    /\ Valid(req)
    /\ run < MaxRuns
    /\ NewRequest(req)
    /\ NewRun(req)
    /\ response' = StreamingResponse
    /\ agent' = TRUE
    /\ source' = "open"
    /\ gen' = "awaiting"
    /\ status' = "pending"
    /\ chainPos' = 1

\* chat.py:25  create_default_agent() raises: the generator fails on its
\* first resumption, after the response was started
ChatAgentFails(req) ==
    /\ Receivable
    /\ Valid(req)
    /\ run < MaxRuns
    /\ NewRequest(req)
    /\ NewRun(req)
    /\ response' = SendError(StreamingResponse)
    /\ agent' = FALSE
    /\ source' = "none"
    /\ gen' = "failed"
    /\ status' = "error"
    /\ chainPos' = 0

\* chat.py:27  the generator asks agent.astream for the next step only while
\* it is not suspended at the yield (MayPullAlways: a variant that does not
\* wait for the transport)
MayPullAlways(g) == g \in {"awaiting", "yielded"}
MayPull(g) == g = "awaiting"

\* chat.py:27-36  one iteration of the async for loop
GenStep(step) ==
    /\ MayPull(gen)
    /\ Len(consumed) < MaxSteps
    /\ consumed # <<>> => step.lstep >= consumed[Len(consumed)].lstep
    /\ consumed' = Append(consumed, step)
    /\ IF IsTransition(step, langgraph_step)
         THEN /\ langgraph_step' = step.lstep
              /\ logged' = Append(logged, Len(consumed) + 1)
         ELSE UNCHANGED <<langgraph_step, logged>>
    /\ IF Passes(step)
         THEN /\ pending' = Append(pending, Chunk(step.content, Len(consumed) + 1))
              /\ gen' = "yielded"
         ELSE UNCHANGED <<pending, gen>>
    /\ UNCHANGED <<out, source, response, lastReq, agent, atCancel,
                   runVars, chainVars, compactVars, concVars, pairVars>>

\* chat.py:38-46  the transport takes the yielded chunk and resumes the generator
Take ==
    /\ gen = "yielded"
    /\ out' = Write(out, pending)
    /\ pending' = <<>>
    /\ gen' = "awaiting"
    /\ UNCHANGED <<langgraph_step, consumed, logged, source, response, lastReq, agent,
                   atCancel, runVars, chainVars, compactVars, concVars, pairVars>>

\* chat.py:27  the step source is exhausted: the loop ends, generate() returns
\* and the transport closes the body (the terminal event of the raw-text stream)
StopEffect ==
    /\ gen' = "done"
    /\ out' = Append(out, EndEvent)
    /\ source' = "closed"
    /\ UNCHANGED <<langgraph_step, consumed, pending, logged, response, lastReq, agent, atCancel>>

GenStop ==
    /\ gen = "awaiting"
    /\ StopEffect
    /\ status' = "completed"
    /\ UNCHANGED <<run, runUser, chainVars, compactVars, concVars, pairVars>>

\* chat.py:27  the step source raises: generate() has no except clause, the
\* exception leaves the generator and nothing more is written; the exception
\* handler (http_server.py:96-112) cannot replace the response already started
RaiseEffect ==
    /\ gen' = "failed"
    /\ source' = "closed"
    /\ response' = SendError(response)
    /\ UNCHANGED <<langgraph_step, consumed, pending, out, logged, lastReq, agent, atCancel>>

GenRaise ==
    /\ gen = "awaiting"
    /\ RaiseEffect
    /\ status' = "error"
    /\ UNCHANGED <<run, runUser, chainVars, compactVars, concVars, pairVars>>

\* chat.py:38-46  the client goes away: the task serving the response is
\* cancelled where it is suspended.  Waiting for a step, the cancellation
\* unwinds generate() and agent.astream; waiting for a write, generate() stays
\* suspended at the yield (chat.py:36) and is not resumed again.
Disconnect ==
    /\ gen \in {"awaiting", "yielded"}
    /\ gen' = "cancelled"
    /\ status' = "cancelled"
    /\ source' = IF gen = "awaiting" THEN "closed" ELSE source
    /\ atCancel' = [consumed |-> Len(consumed), written |-> Len(out)]
    /\ UNCHANGED <<langgraph_step, consumed, pending, out, logged, response, lastReq, agent,
                   run, runUser, chainVars, compactVars, concVars, pairVars>>

\* chat.py:24-36  generate() has no finally clause and nothing closes it:
\* the abandoned generator and its step source are closed when the runtime
\* finalizes them
Finalize ==
    /\ gen = "cancelled"
    /\ source = "open"
    /\ source' = "closed"
    /\ UNCHANGED <<gen, langgraph_step, consumed, pending, out, logged, response, lastReq,
                   agent, atCancel, runVars, chainVars, compactVars, concVars, pairVars>>

MuxNext ==
    \/ \E req \in Requests : Reject(req)
    \/ \E req \in Requests : Chat(req)
    \/ \E req \in Requests : ChatAgentFails(req)
    \/ \E step \in Steps : GenStep(step)
    \/ Take
    \/ GenStop
    \/ GenRaise
    \/ Disconnect
    \/ Finalize

MaxConcCalls == 3
ConcRuns == {1, 2}
ConcUser == "u1"

ConcRun(pc) == [pc |-> pc, read |-> 0, count |-> Zero, calls |-> 0]

\* the two requests in flight at once, and the generator of a request
PairReqs == {1, 2}
PairGen(g) ==
    [gen |-> g, langgraph_step |-> None, consumed |-> <<>>, pending |-> <<>>,
     out |-> <<>>, logged |-> <<>>, input |-> <<>>]
NoFeed == [steps |-> <<>>, pos |-> 0]

PairIdle ==
    /\ pair = [r \in PairReqs |-> PairGen("done")]
    /\ feeds = [r \in PairReqs |-> NoFeed]

ConcIdle ==
    /\ conc = [r \in ConcRuns |-> ConcRun("done")]
    /\ observed = <<>>

CompactIdle ==
    /\ history = <<>>
    /\ applied = <<>>
    /\ ConcIdle
    /\ PairIdle

Init == MuxInit /\ ChainInit /\ CompactIdle

Next == MuxNext

Spec == Init /\ [][Next]_vars

(***************************************************************************)
(* The summarization interceptor (SummarizationMiddleware configured at    *)
(* core/middle/__init__.py:21-25) on message histories.  A message keeps   *)
(* its role, its ordinal in the original history (0 for a synthesized      *)
(* summary) and its estimated token cost.                                  *)
(***************************************************************************)
max_tokens_before_summary == 4000

\* core/middle/__init__.py:24  messages_to_keep=20 (KeepOneLess: a window one
\* message short)
KeepOneLess == 20 - 1
messages_to_keep == 20

TokenSizes == {50, 150, 200}
SummarySizes == {100, 300}

Message(role, id, tokens) == [role |-> role, id |-> id, tokens |-> tokens, summary |-> FALSE]
SummaryMessage(tokens) == [role |-> "user", id |-> 0, tokens |-> tokens, summary |-> TRUE]

\* a history of len messages of cost base each, message bigAt (if any) of
\* cost BigTokens, led by a system message when sys
MakeHistory(len, sys, base, bigAt) ==
    [i \in 1..len |->
        Message(IF sys /\ i = 1 THEN "system"
                ELSE IF i % 2 = 0 THEN "user" ELSE "assistant",
                i,
                IF i = bigAt THEN BigTokens ELSE base)]

Histories ==
    { MakeHistory(len, sys, base, bigAt) :
        len \in 0..MaxMessages, sys \in BOOLEAN, base \in TokenSizes,
        bigAt \in {0, 2, MaxMessages - messages_to_keep, MaxMessages} }

RECURSIVE Estimate(_)
Estimate(h) == IF h = <<>> THEN 0 ELSE Head(h).tokens + Estimate(Tail(h))

\* Context Compactor: needs_compaction, a function of the estimated size
\* (NeedsCompactionByCount: a variant triggered by the message count)
NeedsCompactionByCount(h, budget) == Len(h) > messages_to_keep
NeedsCompaction(h, budget) == Estimate(h) > budget

HasSystem(h) == h # <<>> /\ h[1].role = "system"
Leading(h) == IF HasSystem(h) THEN <<h[1]>> ELSE <<>>
Body(h) == IF HasSystem(h) THEN Tail(h) ELSE h

\* Context Compactor: compact.  The span before the trailing window is
\* replaced by one summary; the system message and the window are kept.
\* (CompactWithoutSystem: a variant that summarizes the system message too)
CompactWithoutSystem(h, keep, summaryTokens) ==
    <<SummaryMessage(summaryTokens)>> \o SubSeq(h, Len(h) - keep + 1, Len(h))

Compact(h, keep, summaryTokens) ==
    LET body == Body(h)
        cut == Len(body) - keep
    IN Leading(h) \o <<SummaryMessage(summaryTokens)>> \o SubSeq(body, cut + 1, Len(body))

\* whether there is a span before the trailing window to replace
HasSpan(h, keep) == Len(Body(h)) > keep

\* one application of the interceptor: what it returns and whether it made
\* the subordinate summarization call (ok: whether that call succeeded)
\* (RunSummarizationTruncating: a variant that replaces the span even when
\* the subordinate call failed)
RunSummarizationTruncating(h, summaryTokens, ok) ==
    IF NeedsCompaction(h, max_tokens_before_summary) /\ HasSpan(h, messages_to_keep)
      THEN [before |-> h,
            after |-> Compact(h, messages_to_keep, summaryTokens),
            subcall |-> TRUE,
            failed |-> ~ok]
      ELSE [before |-> h, after |-> h, subcall |-> FALSE, failed |-> FALSE]

RunSummarization(h, summaryTokens, ok) ==
    IF NeedsCompaction(h, max_tokens_before_summary) /\ HasSpan(h, messages_to_keep)
      THEN [before |-> h,
            after |-> IF ok THEN Compact(h, messages_to_keep, summaryTokens) ELSE h,
            subcall |-> TRUE,
            failed |-> ~ok]
      ELSE [before |-> h, after |-> h, subcall |-> FALSE, failed |-> FALSE]

(***************************************************************************)
(* The middleware chain around each model or tool call of the agent loop   *)
(* (create_agent(model, tools, middleware=DEFAULT_MIDDLEWARE)).  The steps *)
(* a call streams are not tracked here: only how the run ends.             *)
(***************************************************************************)
IsQuota(name) == name \in {"ModelCallLimit", "ToolCallLimit"}

\* whether interceptor name counts the call wrapped by this invocation
Counts(name, k) == IsQuota(name) /\ KindOf(name) = k

\* one interceptor of the chain runs to completion.  Summarization applies
\* RunSummarization to the history and always proceeds: a failed subordinate
\* call leaves the history as it was and a retryable error for the caller.
Intercept(summaryTokens, ok) ==
    /\ chainPos \in 1..Len(DEFAULT_MIDDLEWARE)
    /\ LET name == DEFAULT_MIDDLEWARE[chainPos]
           r == RunSummarization(history, summaryTokens, ok)
           rc == IF Counts(name, kind) THEN RecordCall(runCount, kind) ELSE runCount
           tc == IF Counts(name, kind) THEN RecordCall(threadCount, kind) ELSE threadCount
           over == /\ Counts(name, kind)
                   /\ Exceeds(tc[kind], rc[kind], ThreadLimitOf(name), RunLimitOf(name))
           exit == QuotaExit(ExitPolicyOf(name))
       IN /\ ran' = Append(ran, name)
          /\ runCount' = rc
          /\ threadCount' = tc
          /\ saved' = Persist(saved, ThreadOfRun(runUser), tc)
          /\ recorded' = IF Counts(name, kind) /\ kind = "model"
                           THEN [recorded EXCEPT ![runUser] = @ + 1]
                           ELSE recorded
          /\ chainPos' = ChainNext(chainPos, ~over)
          /\ IF over
               THEN /\ shortBy' = name
                    /\ status' = exit.status
                    /\ IF exit.raises THEN RaiseEffect ELSE StopEffect
               ELSE UNCHANGED <<shortBy, status, muxVars>>
          /\ IF name = "Summarization"
               THEN /\ history' = r.after
                    /\ summaryResult' = r
                    /\ retryable' = r.failed
               ELSE UNCHANGED <<history, summaryResult, retryable>>
    /\ UNCHANGED <<run, runUser, kind, called, faultBy, applied, concVars, pairVars>>

\* the interceptor at the current position fails on its own account (not by
\* policy).  The fault either leaves agent.astream as an exception or ends
\* the step stream; generate() forwards step contents only (chat.py:27-36).
InterceptorFault(raises) ==
    /\ chainPos \in 1..Len(DEFAULT_MIDDLEWARE)
    /\ faultBy' = DEFAULT_MIDDLEWARE[chainPos]
    /\ chainPos' = 0
    /\ status' = "error"
    /\ IF raises THEN RaiseEffect ELSE StopEffect
    /\ UNCHANGED <<run, runUser, kind, ran, shortBy, called, runCount, threadCount, saved,
                   recorded, summaryResult, retryable, compactVars, concVars, pairVars>>

\* every interceptor proceeded: the wrapped model or tool call is executed
AgentCall ==
    /\ chainPos = Len(DEFAULT_MIDDLEWARE) + 1
    /\ called' = TRUE
    /\ chainPos' = 0
    /\ UNCHANGED <<muxVars, runVars, kind, ran, shortBy, runCount, threadCount, saved, recorded,
                   faultBy, summaryResult, retryable, compactVars, concVars, pairVars>>

\* the wrapped call fails: the fault leaves agent.astream
AgentCallFails ==
    /\ chainPos = Len(DEFAULT_MIDDLEWARE) + 1
    /\ shortBy = ""
    /\ chainPos' = 0
    /\ status' = "error"
    /\ RaiseEffect
    /\ UNCHANGED <<run, runUser, kind, ran, shortBy, called, runCount, threadCount, saved, recorded,
                   faultBy, summaryResult, retryable, compactVars, concVars, pairVars>>

\* the agent loop goes on: a model call asked for a tool call, or a tool call
\* is followed by another tool call or by the next model call
NextInvocation(k) ==
    /\ status = "pending"
    /\ chainPos = 0
    /\ called
    /\ kind = "model" => k = "tool"
    /\ kind' = k
    /\ chainPos' = 1
    /\ ran' = <<>>
    /\ called' = FALSE
    /\ UNCHANGED <<muxVars, runVars, shortBy, runCount, threadCount, saved, recorded,
                   faultBy, summaryResult, retryable, compactVars, concVars, pairVars>>

\* the model answered without asking for a tool: the run is complete
Finish ==
    /\ status = "pending"
    /\ chainPos = 0
    /\ called
    /\ kind = "model"
    /\ status' = "completed"
    /\ StopEffect
    /\ UNCHANGED <<run, runUser, chainVars, compactVars, concVars, pairVars>>

QuotaNext ==
    \/ \E req \in Requests : Chat(req)
    \/ \E st \in SummarySizes, ok \in BOOLEAN : Intercept(st, ok)
    \/ \E raises \in BOOLEAN : InterceptorFault(raises)
    \/ AgentCall
    \/ AgentCallFails
    \/ \E k \in Kinds : NextInvocation(k)
    \/ Finish

SpecQuota == Init /\ [][QuotaNext]_vars

\* one chain invocation per request, on a history of any size
InitChain ==
    /\ MuxInit
    /\ ChainInit
    /\ history \in Histories
    /\ applied = <<>>
    /\ ConcIdle
    /\ PairIdle

ChainStepNext ==
    \/ \E req \in Requests : Chat(req)
    \/ \E st \in SummarySizes, ok \in BOOLEAN : Intercept(st, ok)
    \/ \E raises \in BOOLEAN : InterceptorFault(raises)
    \/ AgentCall
    \/ AgentCallFails
    \/ Finish

SpecChain == InitChain /\ [][ChainStepNext]_vars

Summarize(summaryTokens, ok) ==
    /\ Len(applied) < MaxApplications
    /\ LET r == RunSummarization(history, summaryTokens, ok)
       IN /\ history' = r.after
          /\ applied' = Append(applied, r)
    /\ UNCHANGED <<muxVars, runVars, chainVars, concVars, pairVars>>

InitCompact ==
    /\ MuxInit
    /\ ChainInit
    /\ history \in Histories
    /\ applied = <<>>
    /\ ConcIdle
    /\ PairIdle

CompactNext == \E st \in SummarySizes, ok \in BOOLEAN : Summarize(st, ok)

SpecCompact == InitCompact /\ [][CompactNext]_vars

(***************************************************************************)
(* Two requests of the same user served at the same time (the handler of   *)
(* chat.py:22-46 is a coroutine; each request runs its own agent).  Each   *)
(* model call reads the thread-scoped counter, then writes it back plus    *)
(* one; the steps of the two runs interleave.                              *)
(***************************************************************************)
\* the thread-scoped counters run r works on: those retained for its thread,
\* or its own when the run has no thread
ThreadCounterOf(r) ==
    IF ThreadOfRun(ConcUser) = NoThread THEN conc[r].count
    ELSE saved[ThreadOfRun(ConcUser)]

ConcRead(r) ==
    /\ conc[r].pc = "read"
    /\ conc' = [conc EXCEPT ![r].read = ThreadCounterOf(r).model, ![r].pc = "write"]
    /\ observed' = Append(observed, ThreadCounterOf(r).model)
    /\ UNCHANGED <<muxVars, runVars, chainVars, compactVars, pairVars>>

ConcWrite(r) ==
    /\ conc[r].pc = "write"
    /\ LET tc == [ThreadCounterOf(r) EXCEPT !.model = conc[r].read + 1]
       IN /\ conc' = [conc EXCEPT ![r].count = tc,
                                  ![r].calls = @ + 1,
                                  ![r].pc = IF conc[r].calls + 1 = MaxConcCalls
                                              THEN "done" ELSE "read"]
          /\ saved' = Persist(saved, ThreadOfRun(ConcUser), tc)
          /\ recorded' = [recorded EXCEPT ![ConcUser] = @ + 1]
    /\ UNCHANGED <<muxVars, runVars, kind, chainPos, ran, shortBy, called, runCount,
                   threadCount, faultBy, summaryResult, retryable, compactVars, observed, pairVars>>

\* the run ends before it used all its calls
ConcFinish(r) ==
    /\ conc[r].pc = "read"
    /\ conc' = [conc EXCEPT ![r].pc = "done"]
    /\ UNCHANGED <<muxVars, runVars, chainVars, compactVars, observed, pairVars>>

InitConc ==
    /\ MuxInit
    /\ ChainInit
    /\ history = <<>>
    /\ applied = <<>>
    /\ conc = [r \in ConcRuns |-> ConcRun("read")]
    /\ observed = <<>>
    /\ PairIdle

ConcNext ==
    \/ \E r \in ConcRuns : ConcRead(r)
    \/ \E r \in ConcRuns : ConcWrite(r)
    \/ \E r \in ConcRuns : ConcFinish(r)

SpecConc == InitConc /\ [][ConcNext]_vars

(***************************************************************************)
(* Two requests in flight at once.  chat() is a coroutine: every call      *)
(* creates its own generate() closure (chat.py:24), whose locals are the   *)
(* agent (chat.py:25), langgraph_step (chat.py:26) and the iterator of     *)
(* agent.astream (chat.py:27-30); the steps of the two generators          *)
(* interleave at their suspension points.                                  *)
(***************************************************************************)
Step(content, node, lstep) == [content |-> content, node |-> node, lstep |-> lstep]

\* what the agent loop of a request streams
PairFeeds ==
    { <<>>,
      <<Step("Hi", "model", 1)>>,
      <<Step("Hi", "model", 1), Step("", ToolStage, 2), Step(" there", "model", 2)>>,
      <<Step(" there", ToolStage, 1), Step(" there", "model", 1), Step("Hi", "model", 2)>> }

\* chat.py:25-30  the step source generator r iterates: the astream iterator
\* of the agent it created itself (SourceShared: a variant where all requests
\* iterate one source)
SourceShared(r) == 1
SourceOf(r) == r

\* chat.py:22-30  request r is accepted: its generator creates an agent and
\* opens astream
PairChat(r, steps) ==
    /\ pair[r].gen = "idle"
    /\ pair' = [pair EXCEPT ![r] = [PairGen("awaiting") EXCEPT !.input = steps]]
    /\ feeds' = [feeds EXCEPT ![SourceOf(r)] = [steps |-> steps, pos |-> 0]]
    /\ UNCHANGED <<muxVars, runVars, chainVars, compactVars, concVars>>

\* chat.py:27-36  one iteration of the loop of generator r
PairGenStep(r) ==
    LET g == pair[r]
        feed == feeds[SourceOf(r)]
        step == feed.steps[feed.pos + 1]
        n == Len(g.consumed) + 1
        moved == IsTransition(step, g.langgraph_step)
        passes == Passes(step)
    IN /\ MayPull(g.gen)
       /\ feed.pos < Len(feed.steps)
       /\ feeds' = [feeds EXCEPT ![SourceOf(r)].pos = @ + 1]
       /\ pair' = [pair EXCEPT
                     ![r].consumed = Append(@, step),
                     ![r].langgraph_step = IF moved THEN step.lstep ELSE @,
                     ![r].logged = IF moved THEN Append(@, n) ELSE @,
                     ![r].pending = IF passes THEN Append(@, Chunk(step.content, n)) ELSE @,
                     ![r].gen = IF passes THEN "yielded" ELSE @]
       /\ UNCHANGED <<muxVars, runVars, chainVars, compactVars, concVars>>

\* chat.py:38-46  the transport of request r takes the chunk its generator yielded
PairTake(r) ==
    /\ pair[r].gen = "yielded"
    /\ pair' = [pair EXCEPT ![r].out = Write(@, pair[r].pending),
                            ![r].pending = <<>>,
                            ![r].gen = "awaiting"]
    /\ UNCHANGED <<feeds, muxVars, runVars, chainVars, compactVars, concVars>>

\* chat.py:27  the step source of generator r is exhausted
PairStop(r) ==
    /\ pair[r].gen = "awaiting"
    /\ feeds[SourceOf(r)].pos = Len(feeds[SourceOf(r)].steps)
    /\ pair' = [pair EXCEPT ![r].out = Append(@, EndEvent), ![r].gen = "done"]
    /\ UNCHANGED <<feeds, muxVars, runVars, chainVars, compactVars, concVars>>

InitPair ==
    /\ MuxInit
    /\ ChainInit
    /\ history = <<>>
    /\ applied = <<>>
    /\ ConcIdle
    /\ pair = [r \in PairReqs |-> PairGen("idle")]
    /\ feeds = [r \in PairReqs |-> NoFeed]

PairNext ==
    \/ \E r \in PairReqs, steps \in PairFeeds : PairChat(r, steps)
    \/ \E r \in PairReqs : PairGenStep(r)
    \/ \E r \in PairReqs : PairTake(r)
    \/ \E r \in PairReqs : PairStop(r)

SpecPair == InitPair /\ [][PairNext]_vars

(***************************************************************************)
(* Claims about the generator of POST /chat/stream/default.                *)
(***************************************************************************)
\* every chunk the generator has yielded so far, written or not
Yielded == out \o pending

IsChunk(e) == e.kind = "Chunk"
IsTerminal(e) == e.kind \in {"End", "Error"}

RECURSIVE ExpectedTexts(_)
ExpectedTexts(steps) ==
    IF steps = <<>> THEN <<>>
    ELSE LET h == Head(steps)
             rest == ExpectedTexts(Tail(steps))
         IN IF h.node # "tools" /\ h.content # "" THEN <<h.content>> \o rest ELSE rest

ChunkTexts(events) ==
    LET cs == SelectSeq(events, IsChunk)
    IN [i \in 1..Len(cs) |-> cs[i].text]

TerminalCount(events) == Len(SelectSeq(events, IsTerminal))

\* C1: the chunks yielded appear in the order of the steps they derive from,
\* and a chunk is yielded only for a step that was already consumed and
\* carries that step's text.
C1_Ordering ==
    /\ \A a, b \in 1..Len(Yielded) :
          (a < b /\ IsChunk(Yielded[a]) /\ IsChunk(Yielded[b]))
             => Yielded[a].src < Yielded[b].src
    /\ \A a \in 1..Len(Yielded) :
          IsChunk(Yielded[a]) =>
             /\ Yielded[a].src \in 1..Len(consumed)
             /\ Yielded[a].text = consumed[Yielded[a].src].content

C1_Witness ==
    /\ Len(consumed) = 3
    /\ Len(out) >= 2
    /\ IsChunk(out[1]) /\ out[1].src = 1
    /\ IsChunk(out[2]) /\ out[2].src = 3

\* C2: a step on the tool-execution stage never produces a Chunk, whatever
\* its text and whatever preceded it.
C2_ToolStepsSuppressed ==
    \A a \in 1..Len(Yielded) :
       IsChunk(Yielded[a]) => consumed[Yielded[a].src].node # ToolStage

C2_Witness ==
    /\ gen = "done"
    /\ \E i \in 1..Len(consumed) :
          /\ consumed[i].node = ToolStage
          /\ consumed[i].content # ""
          /\ i > 1
          /\ consumed[i - 1].node # ToolStage
    /\ \E a \in 1..Len(out) : IsChunk(out[a])

ScenarioC ==
    << [content |-> "Hi", node |-> "model", lstep |-> 1],
       [content |-> "", node |-> ToolStage, lstep |-> 2],
       [content |-> " there", node |-> "model", lstep |-> 2] >>

\* C3: when the step source ends without error, the chunk texts delivered are
\* exactly the texts of the steps that are not on the tool stage and are not
\* empty, one chunk per such step, followed by the terminal event.
C3_ChunksAreFilteredSteps ==
    gen = "done" =>
       /\ ChunkTexts(out) = ExpectedTexts(consumed)
       /\ Len(out) = Len(ExpectedTexts(consumed)) + 1
       /\ out[Len(out)] = EndEvent
       /\ pending = <<>>
       /\ consumed = ScenarioC =>
             out = <<Chunk("Hi", 1), Chunk(" there", 3), EndEvent>>

C3_Witness ==
    /\ gen = "done"
    /\ consumed = ScenarioC
    /\ Len(out) = 3

\* C4 (as claimed): every completed run, ended normally or by a fault of the
\* step source, has exactly one terminal event in its event sequence.
C4_OneTerminalEvent ==
    gen \in {"done", "failed"} => TerminalCount(out) = 1

\* C5 (as claimed): when the step source raises, the event sequence ends with
\* one terminal Error event after the chunks of the consumed steps.
C5_ErrorEventOnRaise ==
    gen = "failed" =>
       /\ Len(out) >= 1
       /\ out[Len(out)].kind = "Error"
       /\ TerminalCount(out) = 1

C7_ThreadCounterAccumulates ==
    status # "none" =>
       /\ threadCount.model = recorded[runUser]
       /\ runCount.model <= threadCount.model

\* C8: once an interceptor short-circuits an invocation, no interceptor
\* placed after it runs and the wrapped agent call is not executed.
C8_ShortCircuitStopsChain ==
    shortBy # "" =>
       /\ ran # <<>>
       /\ ran[Len(ran)] = shortBy
       /\ ran = SubSeq(DEFAULT_MIDDLEWARE, 1, Len(ran))
       /\ ~called
       /\ chainPos = 0

C8_Witness ==
    /\ shortBy = "ModelCallLimit"
    /\ ran = <<"Summarization", "ModelCallLimit">>
    /\ ~called

\* C9: with the configured graceful exit policy a crossed quota ends the run
\* in status limit-exceeded with a clean terminal event, and neither an Error
\* event nor a raised fault; a quota short-circuit gives the error status
\* under the hard-fail policy only.
C9_GracefulQuotaExit ==
    /\ shortBy = "ModelCallLimit" =>
          /\ status = "limit-exceeded"
          /\ gen = "done"
          /\ out # <<>>
          /\ out[Len(out)] = EndEvent
          /\ TerminalCount(out) = 1
    /\ (IsQuota(shortBy) /\ ExitPolicyOf(shortBy) = "end") =>
          (status = "limit-exceeded" /\ gen = "done" /\ out[Len(out)] = EndEvent)
    /\ (IsQuota(shortBy) /\ status = "error") => ExitPolicyOf(shortBy) = "error"
    /\ \A policy \in ExitPolicies :
          /\ QuotaExit(policy).status = "error" <=> policy = "error"
          /\ QuotaExit(policy).raises <=> policy = "error"

C9_Witness ==
    /\ shortBy = "ModelCallLimit"
    /\ status = "limit-exceeded"
    /\ gen = "done"
    /\ out = <<EndEvent>>

(***************************************************************************)
(* Claims about the summarization interceptor.                             *)
(***************************************************************************)
\* C10: compaction is idempotent: when one application leaves the estimated
\* size under the budget, the next application returns the history unchanged
\* and makes no subordinate summarization call.
C10_CompactionIdempotent ==
    \A i \in 1..(Len(applied) - 1) :
       Estimate(applied[i].after) < max_tokens_before_summary =>
          /\ applied[i + 1].before = applied[i].after
          /\ applied[i + 1].after = applied[i].after
          /\ ~applied[i + 1].subcall

C10_Witness ==
    /\ Len(applied) = 2
    /\ applied[1].subcall
    /\ ~applied[1].failed
    /\ applied[1].after # applied[1].before
    /\ Len(applied[1].after) > messages_to_keep
    /\ Estimate(applied[1].after) < max_tokens_before_summary
    /\ ~applied[2].subcall
    /\ history = applied[1].after

IsSummary(msg) == msg.summary

C12_SystemMessageKept ==
    \A i \in 1..Len(applied) :
       LET b == applied[i].before
           a == applied[i].after
       IN (b # <<>> /\ b[1].role = "system") =>
             /\ a # <<>>
             /\ a[1] = b[1]
             /\ \A j \in 2..Len(a) : a[j].role # "system"

C12_Witness ==
    /\ Len(applied) = 2
    /\ applied[1].before # <<>>
    /\ applied[1].before[1].role = "system"
    /\ applied[1].subcall /\ ~applied[1].failed
    /\ applied[1].after # applied[1].before
    /\ applied[2].subcall /\ applied[2].failed
    /\ history[1].role = "system"

\* C13: when the subordinate summarization call fails, the history is left
\* exactly as it was (nothing truncated), a retryable error is returned to
\* the caller, and the chain is not ended for this reason: the next
\* interceptor is due and the run is still pending.
C13_FailedSummaryKeepsHistory ==
    summaryResult.failed =>
        /\ summaryResult.subcall
        /\ summaryResult.after = summaryResult.before
        /\ history = summaryResult.before
        /\ Len(history) > 20
        /\ retryable
        /\ (ran = <<"Summarization">> /\ faultBy = "") =>
               /\ chainPos = 2
               /\ status = "pending"
               /\ gen = "awaiting"
               /\ shortBy = ""

C13_Witness ==
    /\ summaryResult.failed
    /\ retryable
    /\ called
    /\ status = "completed"
    /\ history = summaryResult.before

\* C14: when an interceptor itself fails, the client receives a well-formed
\* terminal response that is marked as a fault: the stream is closed by an
\* Error event naming the fault, never cut off and never closed as if the
\* run had ended normally.
C14_InterceptorFaultMarked ==
    faultBy # "" =>
        /\ gen = "done"
        /\ out # <<>>
        /\ out[Len(out)].kind = "Error"

\* C20: the interceptors run one at a time in the fixed order Summarization,
\* ModelCallLimit, ToolCallLimit, and the wrapped call is made only after all
\* three ran.
C20_FixedInterceptorOrder ==
    LET order == <<"Summarization", "ModelCallLimit", "ToolCallLimit">>
    IN /\ Len(ran) <= 3
       /\ ran = SubSeq(order, 1, Len(ran))
       /\ chainPos \in 1..4 => Len(ran) = chainPos - 1
       /\ called => ran = order

C20_Witness ==
    /\ run = 2
    /\ called
    /\ kind = "tool"
    /\ ran = <<"Summarization", "ModelCallLimit", "ToolCallLimit">>

\* C16: after a client disconnect the generator pulls no further step and
\* nothing more is written, and the step source is closed; the step source
\* is closed on every exit path of a run (normal end, fault, disconnect).
C16_SourceClosedOnEveryExit ==
    /\ gen = "cancelled" =>
          /\ Len(consumed) = atCancel.consumed
          /\ Len(out) = atCancel.written
    /\ (agent /\ gen \in {"done", "failed", "cancelled"}) => source = "closed"

\* C17: the generator pulls the next step only after the transport took the
\* chunk of the previous one: at most one produced chunk is unwritten, it
\* belongs to the last step pulled, and every earlier chunk is written.
C17_PacedToConsumption ==
    /\ Len(pending) <= 1
    /\ pending # <<>> =>
          /\ gen \in {"yielded", "cancelled"}
          /\ pending[1].src = Len(consumed)
    /\ gen = "yielded" => Len(pending) = 1
    /\ Len(SelectSeq(out, IsChunk)) + Len(pending) = Len(SelectSeq(consumed, Passes))

C17_Witness ==
    /\ gen = "yielded"
    /\ Len(consumed) = MaxSteps
    /\ Len(SelectSeq(out, IsChunk)) = MaxSteps - 1
    /\ Len(pending) = 1

\* C18: a request whose message is empty or missing, or whose user id is
\* missing, is answered with the 422 validation error; no agent is
\* constructed, no step source is opened and no stream is started for it.
C18_MalformedRejected ==
    LET malformed == \/ lastReq.message = Missing
                     \/ lastReq.message = ""
                     \/ lastReq.user_id = Missing
    IN /\ (response.status # 0 /\ malformed) =>
             /\ response.status = 422
             /\ response.body = "json"
             /\ ~agent
             /\ source = "none"
             /\ gen = "idle"
             /\ consumed = <<>>
             /\ pending = <<>>
             /\ out = <<>>
       /\ (agent \/ source # "none" \/ response.status = 200) => ~malformed

C18_Witness ==
    /\ run = 1
    /\ lastReq.message = ""
    /\ lastReq.user_id \in Users
    /\ response.status = 422
    /\ ~agent

\* C19: a fault before the first chunk was streamed (a failure to construct
\* the agent included) is answered by one JSON error object with status 500
\* and error "Internal Server Error" and by no chunk; no request gets both
\* the 500 error object and chunks.
C19_EarlyFaultIsJsonError ==
    /\ (gen = "failed" /\ SelectSeq(out, IsChunk) = <<>>) =>
          /\ response = global_exception_handler
          /\ out = <<>>
    /\ response.status = 500 => SelectSeq(out, IsChunk) = <<>>

\* C15: when runs of one conversation execute concurrently, every call is
\* counted once in the thread-scoped counter: once the runs are over the
\* thread count every run holds is the number of calls recorded for the
\* conversation, and no two calls found the same count before counting
\* themselves.
C15_ConcurrentCallsCountedOnce ==
    /\ (\A r \in ConcRuns : conc[r].pc = "done") =>
          \A r \in ConcRuns : ThreadCounterOf(r).model = recorded[ConcUser]
    /\ \A i, j \in 1..Len(observed) : i # j => observed[i] # observed[j]

\* whether the transition line was logged for step i, and whether a chunk was
\* yielded for it
Logged(i) == \E k \in 1..Len(logged) : logged[k] = i
ChunkOf(i) == \E a \in 1..Len(Yielded) : IsChunk(Yielded[a]) /\ Yielded[a].src = i

\* a transition leaves the event sequence alone: a chunk exists for a step
\* exactly when the step is off the tool stage and has text, transition or not
TransitionIsSilent ==
    \A i \in 1..Len(consumed) :
       ChunkOf(i) <=> (consumed[i].node # "tools" /\ consumed[i].content # "")

\* C21 (as claimed): a transition is registered exactly when the stage name
\* of the step differs from the stage name of the step before it, and on the
\* first step; it produces no client event and does not change whether the
\* step produces a Chunk.
C21_TransitionOnStageChange ==
    /\ \A i \in 1..Len(consumed) :
          Logged(i) <=> (i = 1 \/ consumed[i].node # consumed[i - 1].node)
    /\ TransitionIsSilent

\* C21 (amended): a transition is registered exactly when the step index of
\* the step differs from the tracked step index, that of the step before it,
\* and on the first step; the tracking variable then holds the index of the
\* last step; a transition produces no client event and does not change
\* whether the step produces a Chunk.
C21_TransitionOnStepIndexChange ==
    /\ \A i \in 1..Len(consumed) :
          Logged(i) <=> (i = 1 \/ consumed[i].lstep # consumed[i - 1].lstep)
    /\ langgraph_step = IF consumed = <<>> THEN None ELSE consumed[Len(consumed)].lstep
    /\ TransitionIsSilent

C21_Witness ==
    /\ Len(consumed) = 3
    /\ gen = "done"
    /\ consumed[1].node = ToolStage /\ Logged(1) /\ ~ChunkOf(1)
    /\ consumed[2].node # ToolStage /\ ~Logged(2) /\ ChunkOf(2)
    /\ consumed[3].node = consumed[2].node /\ Logged(3)

\* the events a request gets when its steps are served with no other request
\* in flight: the chunks of the steps that pass the filter, in order, each
\* tagged with the position of its step
RECURSIVE AloneChunks(_, _)
AloneChunks(steps, n) ==
    IF n = 0 THEN <<>>
    ELSE LET s == steps[n]
             before == AloneChunks(steps, n - 1)
         IN IF s.node # "tools" /\ s.content # ""
              THEN Append(before, Chunk(s.content, n))
              ELSE before

\* C22: two requests in flight at once do not affect each other: each
\* generator pulls exactly the steps of its own agent, tracks its own step
\* index, and its client gets exactly the chunks it would get alone, in the
\* same order, followed by the end of the stream; no chunk of the other
\* request's steps appears on its stream.
C22_RequestsIsolated ==
    \A r \in PairReqs :
       LET g == pair[r]
           n == Len(g.consumed)
       IN /\ n <= Len(g.input)
          /\ g.consumed = SubSeq(g.input, 1, n)
          /\ g.out \o g.pending = AloneChunks(g.input, n)
                                     \o (IF g.gen = "done" THEN <<EndEvent>> ELSE <<>>)
          /\ g.gen = "done" => g.out = AloneChunks(g.input, Len(g.input)) \o <<EndEvent>>
          /\ g.langgraph_step = IF n = 0 THEN None ELSE g.consumed[n].lstep

C22_Witness ==
    /\ pair[1].gen = "yielded"
    /\ pair[2].gen = "yielded"
    /\ pair[1].input # pair[2].input
    /\ Len(pair[1].consumed) = 3
    /\ Len(pair[2].consumed) = 2
    /\ Len(pair[1].out) = 1
    /\ pair[2].out = <<>>

====
